---- MODULE Spec2Model ----
(***************************************************************************)
(* A model of the SECOM MES Quality API client (src/quality/quality_api.py) *)
(* together with the REST server its docstrings document.                  *)
(*                                                                         *)
(* Python values are tagged so that None, numbers and strings can be       *)
(* compared: None, Num(n), Str(s), Bool(b).  Dictionaries are functions    *)
(* from keys to values; a key the dictionary does not hold is a key that   *)
(* is not in the function's DOMAIN.  Risk values (predictedRisk,           *)
(* threshold) are written in tenths: Num(7) stands for 0.7.                *)
(*                                                                         *)
(* A coroutine is modelled by the operator of its name: run against the    *)
(* replies the HTTP layer has delivered so far, it tells what the          *)
(* coroutine does next: Await(req) (it is suspended in client.request),    *)
(* Return(v) or Raise(e).                                                  *)
(***************************************************************************)
EXTENDS Integers, Sequences, FiniteSets, TLC

\* ------------------------------------------------------------------ bounds
\* result ids (and lot ids) known to callers and server are 1..MaxId
MaxId == 2
\* datetime.now() reads a process clock with values 0..MaxClock
MaxClock == 1

Ids == 1..MaxId
Clock == 0..MaxClock
\* the concurrent call sites
Procs == {"a", "b"}

\* ----------------------------------------------------------- Python values
None == [t |-> "None"]
Num(n) == [t |-> "num", v |-> n]
Str(s) == [t |-> "str", s |-> s]
Bool(b) == [t |-> "bool", b |-> b]

\* the empty dict {} / no keyword arguments
EmptyDict == <<>>

\* d.get(key, default)
Get(d, key, default) == IF key \in DOMAIN d THEN d[key] ELSE default

\* f"{v}" for an int or a str
Format(v) == IF v.t = "num" THEN ToString(v.v) ELSE IF v.t = "str" THEN v.s ELSE "None"

\* what a step of a coroutine yields
Await(req) == [k |-> "await", req |-> req]
Return(v) == [k |-> "return", val |-> v]
Raise(e) == [k |-> "raise", err |-> e]

\* the exceptions that occur
TypeError == [type |-> "TypeError"]
HTTPStatusError(response) == [type |-> "HTTPStatusError", response |-> response]
TransportError(name) == [type |-> name]
TransportErrors == {"ConnectError", "ReadTimeout"}
\* isinstance(e, httpx.HTTPError)
IsHTTPError(e) == e.type = "HTTPStatusError" \/ e.type \in TransportErrors

\* --------------------------------------------------------- configuration
DEFAULT_BASE_URL == "http://localhost:8080/api/v1"
DefaultTimeout == 30
\* the default threshold 0.7 of get_high_risk_results, and the 0.7 of
\* get_quality_summary, in tenths
DefaultThreshold == 7
SummaryRiskLimit == 7

\* ------------------------------------------------------------- signatures
\* names: the parameters in order; defaults: the parameters that have a default
Signature(fn) ==
    CASE fn = "get_result_by_id" -> [names |-> <<"result_id">>, defaults |-> [x \in {} |-> None]]
      [] fn = "get_all_results" -> [names |-> <<"page", "size">>, defaults |-> [page |-> None, size |-> None]]
      [] fn = "get_passed_results" -> [names |-> <<"page", "size">>, defaults |-> [page |-> None, size |-> None]]
      [] fn = "get_result_by_lot_id" -> [names |-> <<"lot_id">>, defaults |-> [x \in {} |-> None]]
      [] fn = "get_high_risk_results" -> [names |-> <<"threshold">>, defaults |-> [threshold |-> Num(DefaultThreshold)]]
      [] fn = "get_failed_results" -> [names |-> <<"page", "size">>, defaults |-> [page |-> None, size |-> None]]
      [] fn = "get_results_by_defect_type" -> [names |-> <<"defect_type">>, defaults |-> [x \in {} |-> None]]
      [] fn = "get_quality_summary" -> [names |-> <<"result_id">>, defaults |-> [x \in {} |-> None]]
      [] fn = "get_quality_statistics" -> [names |-> <<>>, defaults |-> [x \in {} |-> None]]
      [] fn = "safe_get_result" -> [names |-> <<"result_id">>, defaults |-> [x \in {} |-> None]]

\* Python's argument binding: the call f(*args, **kwargs) raises TypeError
\* when there are too many positional arguments, an unexpected keyword, a
\* parameter given twice, or a parameter without default left out.
Binds(sig, args, kwargs) ==
    /\ Len(args) <= Len(sig.names)
    /\ \A key \in DOMAIN kwargs : \E i \in 1..Len(sig.names) : sig.names[i] = key
    /\ \A i \in 1..Len(args) : sig.names[i] \notin DOMAIN kwargs
    /\ \A i \in 1..Len(sig.names) :
          i <= Len(args) \/ sig.names[i] \in DOMAIN kwargs \/ sig.names[i] \in DOMAIN sig.defaults

\* the value bound to parameter name (Binds holds)
Bound(sig, args, kwargs, name) ==
    LET i == CHOOSE j \in 1..Len(sig.names) : sig.names[j] = name
    IN IF i <= Len(args) THEN args[i]
       ELSE IF name \in DOMAIN kwargs THEN kwargs[name]
       ELSE sig.defaults[name]

\* ------------------------------------------------------------- dispatcher
\* a faulty variant of raise_for_status: only client and server errors (4xx, 5xx) raise
raise_for_status_errors_only(response) ==
    IF response.status >= 400
    THEN Raise(HTTPStatusError(response))
    ELSE Return(response)

\* response.raise_for_status(): HTTPStatusError unless the status is 2xx
raise_for_status(response) ==
    IF response.status >= 200 /\ response.status < 300
    THEN Return(response)
    ELSE Raise(HTTPStatusError(response))

\* response.json()
json(response) == response.body

\* a faulty variant of _make_request: a request that failed at the transport level is issued once more
_make_request_retry_once(method, endpoint, base_url, json_data, params, timeout, replies) ==
    LET request == [method |-> method, url |-> base_url \o endpoint, json |-> json_data,
                    params |-> params,
                    headers |-> [ContentType |-> "application/json", Accept |-> "application/json"],
                    timeout |-> timeout]
        last == replies[Len(replies)]
    IN IF replies = <<>> THEN Await(request)
       ELSE IF Len(replies) = 1 /\ last.k = "fault" THEN Await(request)
       ELSE IF last.k = "fault" THEN Raise(TransportError(last.err))
       ELSE raise_for_status(last)

\* replies: what the HTTP layer has delivered to this call; a reply is
\* [k |-> "response", status, body] or [k |-> "fault", err]
_make_request(method, endpoint, base_url, json_data, params, timeout, replies) ==
    LET url == base_url \o endpoint
        request == [method |-> method, url |-> url, json |-> json_data, params |-> params,
                    headers |-> [ContentType |-> "application/json", Accept |-> "application/json"],
                    timeout |-> timeout]
    IN IF replies = <<>> THEN Await(request)
       ELSE IF Head(replies).k = "fault" THEN Raise(TransportError(Head(replies).err))
       ELSE raise_for_status(Head(replies))

\* "return response.json()" after "response = await _make_request(...)"
ReturnJson(step) == IF step.k = "return" THEN Return(json(step.val)) ELSE step

\* a faulty variant of get_result_by_id: the id is looked up as a lot id
get_result_by_id_as_lot(result_id, replies) ==
    ReturnJson(_make_request("GET", "/quality/results/lot/" \o Format(result_id),
                             DEFAULT_BASE_URL, None, None, DefaultTimeout, replies))

\* -------------------------------------------------------- query functions
get_result_by_id(result_id, replies) ==
    LET base_url == DEFAULT_BASE_URL
    IN ReturnJson(_make_request("GET", "/quality/results/" \o Format(result_id),
                                base_url, None, None, DefaultTimeout, replies))

\* a faulty variant of PageParams: "if page:" and "if size:" in place of "is not None"
PageParams_truthy(page, size) ==
    LET given(x) == x # None /\ x # Num(0)
        keys == (IF given(page) THEN {"page"} ELSE {}) \cup (IF given(size) THEN {"size"} ELSE {})
    IN [key \in keys |-> IF key = "page" THEN page ELSE size]

\* params = {}; if page is not None: params["page"] = page; likewise size
PageParams(page, size) ==
    LET keys == (IF page # None THEN {"page"} ELSE {}) \cup (IF size # None THEN {"size"} ELSE {})
    IN [key \in keys |-> IF key = "page" THEN page ELSE size]

\* params if params else None
OrNone(params) == IF DOMAIN params # {} THEN params ELSE None

get_all_results(page, size, replies) ==
    LET params == PageParams(page, size)
    IN ReturnJson(_make_request("GET", "/quality/results", DEFAULT_BASE_URL, None,
                                OrNone(params), DefaultTimeout, replies))

get_passed_results(page, size, replies) ==
    LET base_url == DEFAULT_BASE_URL
        params == PageParams(page, size)
    IN ReturnJson(_make_request("GET", "/quality/results/passed", base_url, None,
                                OrNone(params), DefaultTimeout, replies))

get_result_by_lot_id(lot_id, replies) ==
    LET base_url == DEFAULT_BASE_URL
    IN ReturnJson(_make_request("GET", "/quality/results/lot/" \o Format(lot_id),
                                base_url, None, None, DefaultTimeout, replies))

\* a faulty variant of get_high_risk_results: the request always carries the default threshold
get_high_risk_results_default_threshold(threshold, replies) ==
    ReturnJson(_make_request("GET", "/quality/results/high-risk", DEFAULT_BASE_URL, None,
                             [threshold |-> Num(DefaultThreshold)], DefaultTimeout, replies))

get_high_risk_results(threshold, replies) ==
    LET base_url == DEFAULT_BASE_URL
        params == [threshold |-> threshold]
    IN ReturnJson(_make_request("GET", "/quality/results/high-risk", base_url, None,
                                params, DefaultTimeout, replies))

get_failed_results(page, size, replies) ==
    LET base_url == DEFAULT_BASE_URL
        params == PageParams(page, size)
    IN ReturnJson(_make_request("GET", "/quality/results/failed", base_url, None,
                                OrNone(params), DefaultTimeout, replies))

\* a faulty variant of get_results_by_defect_type: a 404 is taken to mean "no results" and gives the empty list
get_results_by_defect_type_empty_on_404(defect_type, replies) ==
    LET step == _make_request("GET", "/quality/results/defect/" \o Format(defect_type),
                              DEFAULT_BASE_URL, None, None, DefaultTimeout, replies)
    IN IF step.k = "raise" /\ step.err.type = "HTTPStatusError" /\ step.err.response.status = 404
       THEN Return(<<>>)
       ELSE ReturnJson(step)

get_results_by_defect_type(defect_type, replies) ==
    LET base_url == DEFAULT_BASE_URL
    IN ReturnJson(_make_request("GET", "/quality/results/defect/" \o Format(defect_type),
                                base_url, None, None, DefaultTimeout, replies))

QueryFunctions == {"get_result_by_id", "get_all_results", "get_passed_results",
                   "get_result_by_lot_id", "get_high_risk_results", "get_failed_results",
                   "get_results_by_defect_type"}

\* the call fn(*args, **kwargs) of a query function
CallQuery(fn, args, kwargs, replies) ==
    LET sig == Signature(fn)
        arg(name) == Bound(sig, args, kwargs, name)
    IN IF ~Binds(sig, args, kwargs) THEN Raise(TypeError)
       ELSE CASE fn = "get_result_by_id" -> get_result_by_id(arg("result_id"), replies)
              [] fn = "get_all_results" -> get_all_results(arg("page"), arg("size"), replies)
              [] fn = "get_passed_results" -> get_passed_results(arg("page"), arg("size"), replies)
              [] fn = "get_result_by_lot_id" -> get_result_by_lot_id(arg("lot_id"), replies)
              [] fn = "get_high_risk_results" -> get_high_risk_results(arg("threshold"), replies)
              [] fn = "get_failed_results" -> get_failed_results(arg("page"), arg("size"), replies)
              [] fn = "get_results_by_defect_type" -> get_results_by_defect_type(arg("defect_type"), replies)

\* -------------------------------------------------------- derived views
\* a / b as Python computes it, kept exact
Ratio(a, b) == [t |-> "ratio", n |-> a, d |-> b]

\* x > limit for the value x of a dict entry: None > 0.7 raises TypeError
GreaterThan(x, limit) == IF x.t = "num" THEN Return(Bool(x.v > limit)) ELSE Raise(TypeError)

get_quality_summary(result_id, replies, now) ==
    LET base_url == Str(DEFAULT_BASE_URL)
        r == CallQuery("get_result_by_id", <<result_id, base_url>>, EmptyDict, replies)
    IN IF r.k # "return" THEN r
       ELSE LET result == r.val
                high == GreaterThan(Get(result, "predictedRisk", Num(0)), SummaryRiskLimit)
            IN IF high.k = "raise" THEN high
               ELSE Return([result |-> result,
                            is_passed |-> Bool(Get(result, "classification", None) = Num(-1)),
                            is_high_risk |-> high.val,
                            has_defects |-> Bool(Get(result, "defectType", None) # None),
                            summary_generated_at |-> Num(now)])

\* r.get("qualityScore", 0) or 0
ScoreOrZero(r) ==
    LET q == Get(r, "qualityScore", Num(0)) IN IF q = None THEN 0 ELSE q.v

RECURSIVE SumScores(_)
\* sum(r.get("qualityScore", 0) or 0 for r in content)
SumScores(content) ==
    IF content = <<>> THEN 0 ELSE ScoreOrZero(Head(content)) + SumScores(Tail(content))

\* the statistics record built from the four results (lines 1285-1301)
Statistics(all_results_page, passed_results_page, failed_results_page, high_risk_results, now) ==
    LET total == Get(all_results_page, "totalElements", Num(0))
        passed_count == Get(passed_results_page, "totalElements", Num(0))
        failed_count == Get(failed_results_page, "totalElements", Num(0))
        content == Get(all_results_page, "content", <<>>)
        avg_quality_score == IF content # <<>> THEN Ratio(SumScores(content), Len(content)) ELSE Num(0)
        positive == GreaterThan(total, 0)
    IN IF positive.k = "raise" THEN positive
       ELSE IF positive.val = Bool(TRUE) /\ passed_count.t # "num" THEN Raise(TypeError)
       ELSE Return([total_results |-> total,
                    passed_count |-> passed_count,
                    failed_count |-> failed_count,
                    high_risk_count |-> Num(Len(high_risk_results)),
                    pass_rate |-> IF positive.val = Bool(TRUE)
                                  THEN Ratio(passed_count.v * 100, total.v) ELSE Num(0),
                    average_quality_score |-> avg_quality_score,
                    statistics_generated_at |-> Num(now)])

\* replies after the first n have been consumed by completed sub-calls
Rest(replies, n) == SubSeq(replies, n + 1, Len(replies))

get_quality_statistics(replies, now) ==
    LET base_url == Str(DEFAULT_BASE_URL)
        all_results_page == CallQuery("get_all_results", <<>>, EmptyDict, replies)
    IN IF all_results_page.k # "return" THEN all_results_page ELSE
       LET passed_results_page ==
               CallQuery("get_passed_results", <<>>, [base_url |-> base_url], Rest(replies, 1))
       IN IF passed_results_page.k # "return" THEN passed_results_page ELSE
          LET failed_results_page ==
                  CallQuery("get_failed_results", <<>>, [base_url |-> base_url], Rest(replies, 2))
          IN IF failed_results_page.k # "return" THEN failed_results_page ELSE
             LET high_risk_results ==
                     CallQuery("get_high_risk_results", <<>>, [base_url |-> base_url], Rest(replies, 3))
             IN IF high_risk_results.k # "return" THEN high_risk_results
                ELSE Statistics(all_results_page.val, passed_results_page.val,
                                failed_results_page.val, high_risk_results.val, now)

safe_get_result(result_id, replies) ==
    LET base_url == Str(DEFAULT_BASE_URL)
        r == CallQuery("get_result_by_id", <<result_id, base_url>>, EmptyDict, replies)
    IN IF r.k # "raise" THEN r
       ELSE IF r.err.type = "HTTPStatusError"
            THEN (IF r.err.response.status = 404 THEN Return(None) ELSE r)
       ELSE IF IsHTTPError(r.err) THEN Return(None)
       ELSE r

PublicFunctions == QueryFunctions \cup {"get_quality_summary", "get_quality_statistics", "safe_get_result"}

\* the call fn(*args, **kwargs) of a public function by a caller
Call(fn, args, kwargs, replies, now) ==
    LET sig == Signature(fn)
    IN IF fn \in QueryFunctions THEN CallQuery(fn, args, kwargs, replies)
       ELSE IF ~Binds(sig, args, kwargs) THEN Raise(TypeError)
       ELSE CASE fn = "get_quality_summary" ->
                     get_quality_summary(Bound(sig, args, kwargs, "result_id"), replies, now)
              [] fn = "get_quality_statistics" -> get_quality_statistics(replies, now)
              [] fn = "safe_get_result" ->
                     safe_get_result(Bound(sig, args, kwargs, "result_id"), replies)

\* ------------------------------------------------------------- the server
\* The REST server as the docstrings document it (A2A Spec, error_responses).
DefectTypes == {"contamination", "electrical_fail"}

\* the records the server may hold under result id i: under an odd id a
\* passed result as in the documentation's example or a failed one with a
\* defect and a null score; under an even id results whose optional fields
\* are missing or null
SampleResults(i) ==
    LET base(c) == [resultId |-> Num(i), lot |-> [lotId |-> Num(i)], classification |-> Num(c)]
    IN IF i % 2 = 1
       THEN { base(-1) @@ [predictedRisk |-> Num(9), qualityScore |-> Num(8)],
              base(1) @@ [predictedRisk |-> Num(7), defectType |-> Str("electrical_fail"), qualityScore |-> None] }
       ELSE { base(-1) @@ [defectType |-> None],
              base(1) @@ [predictedRisk |-> None, defectType |-> Str("electrical_fail"), qualityScore |-> Num(4)] }

\* the server's page and size when the request gives none
ServerDefaultPage == 0
ServerDefaultSize == 20

Response(status, body) == [k |-> "response", status |-> status, body |-> body]
Fault(err) == [k |-> "fault", err |-> err]

\* the stored results, by ascending id
Stored(database) == SelectSeq([i \in Ids |-> database[i]], LAMBDA r : r # None)

Min(a, b) == IF a < b THEN a ELSE b

\* the Page<QualityResult> envelope of page number, of the given size, of list
PageOf(list, number, size) ==
    LET n == Len(list)
        totalPages == (n + size - 1) \div size
        content == SubSeq(list, number * size + 1, Min((number + 1) * size, n))
    IN [totalPages |-> Num(totalPages), totalElements |-> Num(n), size |-> Num(size),
        content |-> content, number |-> Num(number), numberOfElements |-> Num(Len(content)),
        first |-> Bool(number = 0), last |-> Bool(number + 1 >= totalPages),
        empty |-> Bool(content = <<>>)]

\* the request's page and size, the server's defaults where it gives none
PageNumber(req) == IF req.params # None /\ "page" \in DOMAIN req.params THEN req.params.page.v ELSE ServerDefaultPage
PageSize(req) == IF req.params # None /\ "size" \in DOMAIN req.params THEN req.params.size.v ELSE ServerDefaultSize

Paged(req, list) == Response(200, PageOf(list, PageNumber(req), PageSize(req)))

IsPassed(r) == r.classification = Num(-1)
IsFailed(r) == r.classification = Num(1)

Root == DEFAULT_BASE_URL \o "/quality/results"

\* the documented answer of the server holding database to request req
Serve(database, req) ==
    IF req.url = Root THEN Paged(req, Stored(database))
    ELSE IF req.url = Root \o "/passed" THEN Paged(req, SelectSeq(Stored(database), IsPassed))
    ELSE IF req.url = Root \o "/failed" THEN Paged(req, SelectSeq(Stored(database), IsFailed))
    ELSE IF req.url = Root \o "/high-risk"
    THEN Response(200, SelectSeq(Stored(database), LAMBDA r :
             /\ "predictedRisk" \in DOMAIN r
             /\ r.predictedRisk # None
             /\ r.predictedRisk.v > req.params.threshold.v))
    ELSE IF \E i \in Ids : req.url = Root \o "/" \o ToString(i)
    THEN LET i == CHOOSE j \in Ids : req.url = Root \o "/" \o ToString(j)
         IN IF database[i] # None THEN Response(200, database[i])
            ELSE Response(404, Str("Quality result not found"))
    ELSE IF \E i \in Ids : req.url = Root \o "/lot/" \o ToString(i)
    THEN LET i == CHOOSE j \in Ids : req.url = Root \o "/lot/" \o ToString(j)
             found == SelectSeq(Stored(database), LAMBDA r : r.lot.lotId = Num(i))
         IN IF found # <<>> THEN Response(200, Head(found))
            ELSE Response(404, Str("Quality result for specified lot not found"))
    ELSE IF \E d \in DefectTypes : req.url = Root \o "/defect/" \o d
    THEN LET d == CHOOSE e \in DefectTypes : req.url = Root \o "/defect/" \o e
             found == SelectSeq(Stored(database), LAMBDA r : Get(r, "defectType", None) = Str(d))
         IN IF found # <<>> THEN Response(200, found)
            ELSE Response(404, Str("No results found for specified defect type"))
    ELSE Response(404, Str("Not Found"))

\* the requests the documentation gives an answer for: page >= 0, size >= 1
Documented(req) ==
    req.url \in {Root, Root \o "/passed", Root \o "/failed"} => PageNumber(req) >= 0 /\ PageSize(req) >= 1

\* the states the server's data can be in
Databases ==
    {d \in [Ids -> UNION {SampleResults(i) : i \in Ids} \cup {None}] :
        \A i \in Ids : d[i] \in SampleResults(i) \cup {None}}

\* the statuses of a server or gateway fault
FaultStatuses == {301, 500}

\* the conditions the server and the network path to it can be in: the
\* server answers as documented, it answers every request with a fault
\* status, or the transport fails
Healthy == [k |-> "ok"]
Conditions ==
    {Healthy} \cup {[k |-> "status", status |-> st] : st \in FaultStatuses}
              \cup {[k |-> "transport", err |-> e] : e \in TransportErrors}

\* ------------------------------------------------------------ the callers
\* page arguments are -1..MaxPageArg, size arguments 0..MaxSizeArg
MaxPageArg == 0
MaxSizeArg == 1

OTHER_BASE_URL == "http://mes.example:9090/api/v2"
OtherTimeout == 5

\* the per-call configuration a caller may try to pass
ConfigKwargs == {EmptyDict, [base_url |-> Str(OTHER_BASE_URL)], [timeout |-> Num(OtherTimeout)]}

\* page=..., size=..., each given or left out
PagingKwargs ==
    {kw \in UNION {[keys -> {Num(n) : n \in -1..(MaxPageArg + MaxSizeArg)}] : keys \in SUBSET {"page", "size"}} :
        /\ "page" \in DOMAIN kw => kw.page.v <= MaxPageArg
        /\ "size" \in DOMAIN kw => kw.size.v \in 0..MaxSizeArg}

ThresholdKwargs == {EmptyDict} \cup {[threshold |-> Num(t)] : t \in {0, DefaultThreshold, 9}}

Invocation(fn, args, kwargs) == [fn |-> fn, args |-> args, kwargs |-> kwargs]

\* the invocations a call site may make
Invocations ==
    {Invocation(fn, <<Num(i)>>, kw) :
        fn \in {"get_result_by_id", "get_result_by_lot_id", "get_quality_summary", "safe_get_result"},
        i \in Ids, kw \in ConfigKwargs}
    \cup {Invocation("get_results_by_defect_type", <<Str(d)>>, kw) : d \in DefectTypes, kw \in ConfigKwargs}
    \cup {Invocation(fn, <<>>, kw) :
        fn \in {"get_all_results", "get_passed_results", "get_failed_results"},
        kw \in PagingKwargs \cup ConfigKwargs}
    \cup {Invocation("get_high_risk_results", <<>>, kw) : kw \in ThresholdKwargs \cup ConfigKwargs}
    \cup {Invocation("get_quality_statistics", <<>>, kw) : kw \in ConfigKwargs}

NoInvocation == Invocation("none", <<>>, EmptyDict)
NoMessage == [k |-> "none"]
Pending == [k |-> "pending"]

\* ------------------------------------------------------------------ state
VARIABLES
    db,         \* the server's results: db[i] is the result with id i, or None
    condition,  \* the condition of the server and of the network path to it
    callers,    \* the call sites that exist
    pc,         \* pc[p]: "idle", "awaiting" (suspended in client.request) or "done"
    call,       \* call[p]: the invocation p is in
    replies,    \* replies[p]: what the HTTP layer has delivered to the invocation
    net,        \* net[p]: p's request on its way to the server, or the reply on its way back
    outcome,    \* outcome[p]: Return(v) or Raise(e) of the finished invocation
    sent,       \* sent[p]: the requests the invocation has issued, in order
    opened,     \* opened[p]: the httpx.AsyncClient contexts the invocation has entered
    closed      \* closed[p]: those it has left

vars == <<db, condition, callers, pc, call, replies, net, outcome, sent, opened, closed>>

Quiet ==
    /\ pc = [p \in Procs |-> "idle"]
    /\ call = [p \in Procs |-> NoInvocation]
    /\ replies = [p \in Procs |-> <<>>]
    /\ net = [p \in Procs |-> NoMessage]
    /\ outcome = [p \in Procs |-> Pending]
    /\ sent = [p \in Procs |-> <<>>]
    /\ opened = [p \in Procs |-> 0]
    /\ closed = [p \in Procs |-> 0]

\* one call site; the server holds no result yet
Init == db = [i \in Ids |-> None] /\ condition = Healthy /\ callers = {"a"} /\ Quiet

\* Run the coroutine of invocation c of p against the replies rs up to its
\* next suspension or its end.
Advance(p, c, rs, now) ==
    LET step == Call(c.fn, c.args, c.kwargs, rs, now)
        suspended == step.k = "await"
    IN /\ call' = [call EXCEPT ![p] = c]
       /\ replies' = [replies EXCEPT ![p] = rs]
       /\ pc' = [pc EXCEPT ![p] = IF suspended THEN "awaiting" ELSE "done"]
       /\ net' = [net EXCEPT ![p] = IF suspended THEN [k |-> "request", req |-> step.req] ELSE NoMessage]
       /\ outcome' = [outcome EXCEPT ![p] = IF suspended THEN Pending ELSE step]
       /\ sent' = [sent EXCEPT ![p] = IF suspended THEN Append(@, step.req) ELSE @]
       /\ opened' = [opened EXCEPT ![p] = IF suspended THEN @ + 1 ELSE @]

\* a caller awaits a public function
Invoke(p, c, now) ==
    /\ p \in callers
    /\ pc[p] = "idle"
    /\ Advance(p, c, <<>>, now)
    /\ UNCHANGED <<db, condition, callers, closed>>

\* the server answers p's request from its current data
ServerRespond(p) ==
    /\ condition.k = "ok"
    /\ net[p].k = "request"
    /\ Documented(net[p].req)
    /\ net' = [net EXCEPT ![p] = [k |-> "reply", reply |-> Serve(db, net[p].req)]]
    /\ UNCHANGED <<db, condition, callers, pc, call, replies, outcome, sent, opened, closed>>

\* the server (or a gateway before it) answers with a fault status
ServerFault(p) ==
    /\ condition.k = "status"
    /\ net[p].k = "request"
    /\ net' = [net EXCEPT ![p] = [k |-> "reply", reply |-> Response(condition.status, Str("error"))]]
    /\ UNCHANGED <<db, condition, callers, pc, call, replies, outcome, sent, opened, closed>>

\* the connection fails or the timeout expires: client.request raises
TransportFault(p) ==
    /\ condition.k = "transport"
    /\ net[p].k = "request"
    /\ net' = [net EXCEPT ![p] = [k |-> "reply", reply |-> Fault(condition.err)]]
    /\ UNCHANGED <<db, condition, callers, pc, call, replies, outcome, sent, opened, closed>>

\* a faulty variant of Receive: the client is closed only when client.request has returned a response, not when it has raised
Receive_leak_on_fault(p, now) ==
    /\ net[p].k = "reply"
    /\ Advance(p, call[p], Append(replies[p], net[p].reply), now)
    /\ closed' = [closed EXCEPT ![p] = IF net[p].reply.k = "fault" THEN @ ELSE @ + 1]
    /\ UNCHANGED <<db, condition, callers>>

\* a faulty variant of Receive: one client shared by the invocations, which hands a reply to whichever invocation is suspended
Receive_any_reply(p, now) ==
    /\ pc[p] = "awaiting"
    /\ \E q \in Procs :
          /\ net[q].k = "reply"
          /\ Advance(p, call[p], Append(replies[p], net[q].reply), now)
    /\ closed' = [closed EXCEPT ![p] = @ + 1]
    /\ UNCHANGED <<db, condition, callers>>

\* client.request completes: the dispatcher leaves its "async with" block and
\* the invocation runs on
Receive(p, now) ==
    /\ net[p].k = "reply"
    /\ Advance(p, call[p], Append(replies[p], net[p].reply), now)
    /\ closed' = [closed EXCEPT ![p] = @ + 1]
    /\ UNCHANGED <<db, condition, callers>>

\* the caller takes the result; the call site is free again
Collect(p) ==
    /\ pc[p] = "done"
    /\ pc' = [pc EXCEPT ![p] = "idle"]
    /\ call' = [call EXCEPT ![p] = NoInvocation]
    /\ replies' = [replies EXCEPT ![p] = <<>>]
    /\ outcome' = [outcome EXCEPT ![p] = Pending]
    /\ sent' = [sent EXCEPT ![p] = <<>>]
    /\ opened' = [opened EXCEPT ![p] = 0]
    /\ closed' = [closed EXCEPT ![p] = 0]
    /\ UNCHANGED <<db, condition, callers, net>>

\* another client of the server stores, changes or deletes a result
ServerWrite(i, r) ==
    /\ r # db[i]
    /\ db' = [db EXCEPT ![i] = r]
    /\ UNCHANGED <<condition, callers, pc, call, replies, net, outcome, sent, opened, closed>>

\* the server or the network breaks down or recovers
ConditionChange(c) ==
    /\ c # condition
    /\ condition' = c
    /\ UNCHANGED <<db, callers, pc, call, replies, net, outcome, sent, opened, closed>>

Next ==
    \/ \E p \in Procs, c \in Invocations, now \in Clock : Invoke(p, c, now)
    \/ \E p \in Procs : ServerRespond(p)
    \/ \E p \in Procs : ServerFault(p)
    \/ \E p \in Procs : TransportFault(p)
    \/ \E p \in Procs, now \in Clock : Receive(p, now)
    \/ \E p \in Procs : Collect(p)
    \/ \E i \in Ids : \E r \in SampleResults(i) \cup {None} : ServerWrite(i, r)
    \/ \E c \in Conditions : ConditionChange(c)

Spec == Init /\ [][Next]_vars

\* --------------------------------------------------- concurrent call sites
\* the invocations the concurrent call sites make: a lookup, a list query,
\* and the helpers built on them; the result they read, result 1, is the one
\* the other clients of the server write
ConcurrentInvocations ==
    {Invocation("get_result_by_id", <<Num(1)>>, EmptyDict),
     Invocation("get_high_risk_results", <<>>, EmptyDict),
     Invocation("get_quality_statistics", <<>>, EmptyDict),
     Invocation("get_quality_summary", <<Num(1)>>, EmptyDict),
     Invocation("safe_get_result", <<Num(1)>>, EmptyDict)}

\* every call site exists: their invocations run concurrently on one event loop
InitConcurrent == db = [i \in Ids |-> None] /\ condition = Healthy /\ callers = Procs /\ Quiet

NextConcurrent ==
    \/ \E p \in Procs, c \in ConcurrentInvocations, now \in Clock : Invoke(p, c, now)
    \/ \E p \in Procs : ServerRespond(p)
    \/ \E p \in Procs : ServerFault(p)
    \/ \E p \in Procs : TransportFault(p)
    \/ \E p \in Procs, now \in Clock : Receive(p, now)
    \/ \E p \in Procs : Collect(p)
    \/ \E r \in SampleResults(1) \cup {None} : ServerWrite(1, r)
    \/ \E c \in Conditions : ConditionChange(c)

SpecConcurrent == InitConcurrent /\ [][NextConcurrent]_vars

\* ------------------------------------------- the statistics computation
\* The computation of the statistics record (lines 1285-1301) as a function
\* of the four results: these are the answers of the server to the four
\* requests, the all-results answer taken in one state of the server and the
\* other three in a state that writes of other clients may have made of it.
StatisticsRequests ==
    <<get_all_results(None, None, <<>>).req,
      get_passed_results(None, None, <<>>).req,
      get_failed_results(None, None, <<>>).req,
      get_high_risk_results(Num(DefaultThreshold), <<>>).req>>

InitStatistics ==
    /\ db \in Databases
    /\ condition = Healthy
    /\ callers = {"a"}
    /\ pc = [p \in Procs |-> "idle"]
    /\ call = [p \in Procs |-> NoInvocation]
    /\ \E before \in Databases :
          replies = [p \in Procs |->
                        IF p \in callers
                        THEN [k \in 1..4 |-> Serve(IF k = 1 THEN before ELSE db, StatisticsRequests[k])]
                        ELSE <<>>]
    /\ net = [p \in Procs |-> NoMessage]
    /\ outcome = [p \in Procs |-> Pending]
    /\ sent = [p \in Procs |-> IF p \in callers THEN StatisticsRequests ELSE <<>>]
    /\ opened = [p \in Procs |-> Len(sent[p])]
    /\ closed = [p \in Procs |-> Len(sent[p])]

\* lines 1285-1301 run on the four results
ComputeStatistics(p, now) ==
    /\ p \in callers
    /\ pc[p] = "idle"
    /\ pc' = [pc EXCEPT ![p] = "done"]
    /\ call' = [call EXCEPT ![p] = Invocation("get_quality_statistics", <<>>, EmptyDict)]
    /\ outcome' = [outcome EXCEPT ![p] =
           Statistics(json(replies[p][1]), json(replies[p][2]), json(replies[p][3]),
                      json(replies[p][4]), now)]
    /\ UNCHANGED <<db, condition, callers, replies, net, sent, opened, closed>>

NextStatistics == \E p \in Procs, now \in Clock : ComputeStatistics(p, now)

SpecStatistics == InitStatistics /\ [][NextStatistics]_vars

\* ------------------------------------------------------------- properties
Done(p) == pc[p] = "done"

\* the step in which p's invocation ends
Finishes(p) == pc[p] # "done" /\ pc'[p] = "done"

\* c is the call fn(x), with no further argument
Plain(c, fn) == c.fn = fn /\ Len(c.args) = 1 /\ c.kwargs = EmptyDict

IsStatus(reply, status) == reply.k = "response" /\ reply.status = status
Is2xx(reply) == reply.k = "response" /\ reply.status \div 100 = 2
IsFault(reply) == reply.k = "fault"

\* the replies delivered, as a set
Delivered(rs) == {rs[n] : n \in 1..Len(rs)}

\* C1: safe_get_result(id) returns None for an id the server does not hold:
\* an invocation that ends while the healthy server has no result id, and
\* that has received nothing but 404 answers, ends with the value None.
C1_SafeGetResultNoneWhenNotFound ==
    [][\A p \in Procs :
          (/\ Finishes(p)
           /\ Plain(call'[p], "safe_get_result")
           /\ condition = Healthy
           /\ db[call'[p].args[1].v] = None
           /\ \A r \in Delivered(replies'[p]) : IsStatus(r, 404))
          => outcome'[p] = Return(None)]_vars

\* C2: get_quality_summary(id) of a result the server holds returns a
\* summary with is_passed = (classification = -1) and has_defects =
\* (defectType is not None); the documented result 1 (classification -1,
\* predictedRisk 0.9, no defectType) gives True, True (is_high_risk), False.
C2_SummaryFlags ==
    [][\A p \in Procs :
          (/\ Finishes(p)
           /\ Plain(call'[p], "get_quality_summary")
           /\ condition = Healthy
           /\ db[call'[p].args[1].v] # None
           /\ \A r \in Delivered(replies'[p]) : IsStatus(r, 200))
          => LET result == IF replies'[p] # <<>> THEN replies'[p][1].body
                           ELSE db[call'[p].args[1].v]
             IN /\ outcome'[p].k = "return"
                /\ outcome'[p].val.is_passed = Bool(Get(result, "classification", None) = Num(-1))
                /\ outcome'[p].val.has_defects = Bool(Get(result, "defectType", None) # None)
                /\ (/\ Get(result, "classification", None) = Num(-1)
                    /\ Get(result, "predictedRisk", None) = Num(9)
                    /\ "defectType" \notin DOMAIN result)
                   => /\ outcome'[p].val.is_passed = Bool(TRUE)
                      /\ outcome'[p].val.is_high_risk = Bool(TRUE)
                      /\ outcome'[p].val.has_defects = Bool(FALSE)]_vars

\* what the request of get_result_by_id(id) is answered with under the
\* server's data and condition
AnswerNow(req) ==
    IF condition.k = "ok" THEN Serve(db, req)
    ELSE IF condition.k = "status" THEN Response(condition.status, Str("error"))
    ELSE Fault(condition.err)

\* C3: get_quality_summary(id) fails exactly as get_result_by_id(id) fails:
\* it ends with an error if and only if the lookup, given the same answer,
\* ends with one, and then with the same error.
C3_SummaryFailsAsLookup ==
    [][\A p \in Procs :
          (Finishes(p) /\ Plain(call'[p], "get_quality_summary"))
          => LET id == call'[p].args[1]
                 rs == IF replies'[p] # <<>> THEN replies'[p]
                       ELSE <<AnswerNow(get_result_by_id(id, <<>>).req)>>
                 lookup == get_result_by_id(id, rs)
             IN /\ (outcome'[p].k = "raise") = (lookup.k = "raise")
                /\ lookup.k = "raise" => outcome'[p] = lookup]_vars

\* C4: get_quality_statistics() returns a record with pass_rate = 0, and
\* raises nothing, when the server reports a total element count of 0.
C4_PassRateZeroWhenEmpty ==
    [][\A p \in Procs :
          (/\ Finishes(p)
           /\ call'[p] = Invocation("get_quality_statistics", <<>>, EmptyDict)
           /\ condition = Healthy
           /\ replies'[p] # <<>>
           /\ \A r \in Delivered(replies'[p]) : IsStatus(r, 200)
           /\ Get(replies'[p][1].body, "totalElements", Num(0)) = Num(0))
          => /\ outcome'[p].k = "return"
             /\ outcome'[p].val.pass_rate = Num(0)]_vars

\* C5: when the transport fails (connection failure, timeout),
\* safe_get_result(id) returns None: an invocation that ends while the
\* transport is failing, and that has received nothing but transport
\* failures, ends with the value None.
C5_SafeGetResultNoneOnTransportFault ==
    [][\A p \in Procs :
          (/\ Finishes(p)
           /\ Plain(call'[p], "safe_get_result")
           /\ condition.k = "transport"
           /\ \A r \in Delivered(replies'[p]) : IsFault(r))
          => outcome'[p] = Return(None)]_vars

\* C6: safe_get_result(id) returns None "on error": an invocation that ends
\* while the server answers with a non-2xx status other than 404, and that
\* has received nothing but such answers, ends with the value None.
C6_SafeGetResultNoneOnServerError ==
    [][\A p \in Procs :
          (/\ Finishes(p)
           /\ Plain(call'[p], "safe_get_result")
           /\ condition.k = "status"
           /\ condition.status # 404
           /\ \A r \in Delivered(replies'[p]) : r.k = "response" /\ ~Is2xx(r) /\ r.status # 404)
          => outcome'[p] = Return(None)]_vars

LookupFunctions == {"get_result_by_id", "get_result_by_lot_id", "get_results_by_defect_type"}

\* C7: a 404 answer to get_result_by_id, get_result_by_lot_id or
\* get_results_by_defect_type reaches the caller as the HTTP-status error
\* that carries this answer, status 404; it is never turned into a value
\* (an empty sequence, None).
C7_NotFoundPropagates ==
    \A p \in Procs :
        (/\ Done(p)
         /\ \E fn \in LookupFunctions : Plain(call[p], fn)
         /\ replies[p] # <<>>
         /\ IsStatus(replies[p][1], 404))
        => /\ outcome[p].k = "raise"
           /\ outcome[p].err.type = "HTTPStatusError"
           /\ outcome[p].err.response = replies[p][1]
           /\ outcome[p].err.response.status = 404

\* get_results_by_defect_type("electrical_fail") has failed with the 404 the
\* server gives while it holds no result with that defect type
C7_Witness ==
    \E p \in Procs :
        /\ Done(p)
        /\ Plain(call[p], "get_results_by_defect_type")
        /\ call[p].args = <<Str("electrical_fail")>>
        /\ \A i \in Ids : db[i] = None \/ Get(db[i], "defectType", None) # Str("electrical_fail")
        /\ condition = Healthy
        /\ replies[p] = <<Serve(db, sent[p][1])>>
        /\ IsStatus(replies[p][1], 404)
        /\ outcome[p].k = "raise"

\* C8: a query function that has received a response ends with
\* HTTPStatusError carrying the response's status and body when the status
\* is not 2xx, and with the decoded body only when it is 2xx.
C8_NonSuccessStatusRaises ==
    \A p \in Procs :
        (/\ Done(p)
         /\ call[p].fn \in QueryFunctions
         /\ replies[p] # <<>>
         /\ replies[p][1].k = "response")
        => IF Is2xx(replies[p][1])
           THEN outcome[p] = Return(replies[p][1].body)
           ELSE /\ outcome[p].k = "raise"
                /\ outcome[p].err.type = "HTTPStatusError"
                /\ outcome[p].err.response.status = replies[p][1].status
                /\ outcome[p].err.response.body = replies[p][1].body

\* a query function has failed on a redirect status, which is neither a
\* client nor a server error
C8_Witness ==
    \E p \in Procs :
        /\ Done(p)
        /\ call[p].fn \in QueryFunctions
        /\ replies[p] # <<>>
        /\ IsStatus(replies[p][1], 301)
        /\ outcome[p].k = "raise"

\* the endpoint of the first request of invocation c
Endpoint(c) ==
    CASE c.fn \in {"get_result_by_id", "get_quality_summary", "safe_get_result"} ->
             "/quality/results/" \o Format(c.args[1])
      [] c.fn \in {"get_all_results", "get_quality_statistics"} -> "/quality/results"
      [] c.fn = "get_passed_results" -> "/quality/results/passed"
      [] c.fn = "get_result_by_lot_id" -> "/quality/results/lot/" \o Format(c.args[1])
      [] c.fn = "get_high_risk_results" -> "/quality/results/high-risk"
      [] c.fn = "get_failed_results" -> "/quality/results/failed"
      [] c.fn = "get_results_by_defect_type" -> "/quality/results/defect/" \o Format(c.args[1])

\* C9: a caller can supply a base URL and a timeout per call: the request of
\* a query function is sent to the base URL and with the timeout the caller
\* gave, and to http://localhost:8080/api/v1 with 30 s where it gave none.
C9_PerCallConfiguration ==
    \A p \in Procs :
        (pc[p] # "idle" /\ call[p].fn \in QueryFunctions /\ call[p].kwargs \in ConfigKwargs)
        => /\ sent[p] # <<>>
           /\ sent[p][1].url =
                  Get(call[p].kwargs, "base_url", Str(DEFAULT_BASE_URL)).s \o Endpoint(call[p])
           /\ sent[p][1].timeout = Get(call[p].kwargs, "timeout", Num(DefaultTimeout)).v

PagedFunctions == {"get_all_results", "get_passed_results", "get_failed_results"}

\* C10: the request of get_all_results, get_passed_results and
\* get_failed_results carries 'page' exactly when page was given and 'size'
\* exactly when size was given, each with the caller's value; with both left
\* out it carries no query parameters.
C10_PagingPassedThrough ==
    \A p \in Procs :
        (pc[p] # "idle" /\ call[p].fn \in PagedFunctions /\ call[p].kwargs \in PagingKwargs)
        => /\ Len(sent[p]) = 1
           /\ IF call[p].kwargs = EmptyDict
              THEN sent[p][1].params = None
              ELSE /\ DOMAIN sent[p][1].params = DOMAIN call[p].kwargs
                   /\ \A key \in DOMAIN call[p].kwargs : sent[p][1].params[key] = call[p].kwargs[key]

\* get_passed_results(page=0) has sent page=0 and no size
C10_Witness ==
    \E p \in Procs :
        /\ call[p].fn = "get_passed_results"
        /\ call[p].kwargs = [page |-> Num(0)]
        /\ Len(sent[p]) = 1
        /\ sent[p][1].params = [page |-> Num(0)]

\* the caller's arguments fit the parameters of the function
Accepted(c) == Binds(Signature(c.fn), c.args, c.kwargs)

\* C11: an invocation of a query function issues exactly one request, a GET:
\* one while it is suspended in the request, and still only this one when it
\* has ended, whether with the decoded body, an HTTP-status error or a
\* transport error.
C11_OneRequestPerQuery ==
    \A p \in Procs :
        (pc[p] # "idle" /\ call[p].fn \in QueryFunctions /\ Accepted(call[p]))
        => /\ Len(sent[p]) = 1
           /\ sent[p][1].method = "GET"
           /\ Done(p) => Len(replies[p]) = 1

\* a query function has ended with the timeout of its only request
C11_Witness ==
    \E p \in Procs :
        /\ Done(p)
        /\ call[p].fn \in QueryFunctions
        /\ replies[p] = <<Fault("ReadTimeout")>>
        /\ outcome[p] = Raise(TransportError("ReadTimeout"))
        /\ Len(sent[p]) = 1

\* C12: get_quality_summary(id) of a result the server holds returns
\* is_high_risk = (predictedRisk > 0.7), strictly, where a predictedRisk
\* that is absent or null counts as 0: it gives False and raises nothing.
C12_SummaryHighRisk ==
    [][\A p \in Procs :
          (/\ Finishes(p)
           /\ Plain(call'[p], "get_quality_summary")
           /\ condition = Healthy
           /\ db[call'[p].args[1].v] # None
           /\ \A r \in Delivered(replies'[p]) : IsStatus(r, 200))
          => LET result == IF replies'[p] # <<>> THEN replies'[p][1].body
                           ELSE db[call'[p].args[1].v]
                 risk == Get(result, "predictedRisk", None)
             IN /\ outcome'[p].k = "return"
                /\ outcome'[p].val.is_high_risk = Bool(risk # None /\ risk.v > SummaryRiskLimit)]_vars

\* the threshold of the call c of get_high_risk_results
Threshold(c) == Get(c.kwargs, "threshold", Num(DefaultThreshold))

\* predictedRisk of r is a number above t
RiskAbove(r, t) == "predictedRisk" \in DOMAIN r /\ r.predictedRisk # None /\ r.predictedRisk.v > t.v

\* C13: get_high_risk_results(t) sends t as the query parameter 'threshold',
\* 0.7 when the caller gives none; the server that filters by
\* predictedRisk > threshold so answers with exactly its results above the
\* caller's t, in its order; and the function returns the answered sequence
\* unchanged, every element of it with predictedRisk > t.
C13_HighRiskThreshold ==
    [][\A p \in Procs :
          (pc'[p] # "idle" /\ call'[p].fn = "get_high_risk_results" /\ call'[p].kwargs \in ThresholdKwargs)
          => LET t == Threshold(call'[p])
             IN /\ Len(sent'[p]) = 1
                /\ sent'[p][1].params = [threshold |-> t]
                /\ (net[p].k = "request" /\ net'[p].k = "reply" /\ condition = Healthy)
                   => net'[p].reply = Response(200, SelectSeq(Stored(db), LAMBDA r : RiskAbove(r, t)))
                /\ (Done(p)' /\ Is2xx(replies'[p][1]))
                   => /\ outcome'[p] = Return(replies'[p][1].body)
                      /\ \A n \in 1..Len(outcome'[p].val) : RiskAbove(outcome'[p].val[n], t)]_vars

\* get_high_risk_results(threshold=0) has returned the one result whose
\* predictedRisk is a number, and not the one whose predictedRisk is null
C13_Witness ==
    \E p \in Procs :
        /\ Done(p)
        /\ call[p] = Invocation("get_high_risk_results", <<>>, [threshold |-> Num(0)])
        /\ \A i \in Ids : db[i] # None
        /\ \E i \in Ids : Get(db[i], "predictedRisk", Num(0)) = None
        /\ replies[p] = <<Serve(db, sent[p][1])>>
        /\ Len(replies[p][1].body) = 1
        /\ outcome[p] = Return(replies[p][1].body)

\* C14: get_result_by_id(id) requests GET /quality/results/{id} for its id;
\* the server that holds a result under this id answers with that result; and
\* the function returns the answered record unchanged, with resultId = id.
C14_ResultByIdIsTheResult ==
    [][\A p \in Procs :
          (pc'[p] # "idle" /\ Plain(call'[p], "get_result_by_id"))
          => LET id == call'[p].args[1]
             IN /\ Len(sent'[p]) = 1
                /\ sent'[p][1].method = "GET"
                /\ sent'[p][1].url = DEFAULT_BASE_URL \o "/quality/results/" \o ToString(id.v)
                /\ sent'[p][1].params = None
                /\ (net[p].k = "request" /\ net'[p].k = "reply" /\ condition = Healthy /\ db[id.v] # None)
                   => net'[p].reply = Response(200, db[id.v])
                /\ (Done(p)' /\ Is2xx(replies'[p][1]))
                   => /\ outcome'[p] = Return(replies'[p][1].body)
                      /\ outcome'[p].val.resultId = id]_vars

\* get_result_by_id(2) has returned the result the server holds under id 2
C14_Witness ==
    \E p \in Procs :
        /\ Done(p)
        /\ Plain(call[p], "get_result_by_id")
        /\ call[p].args = <<Num(2)>>
        /\ db[2] # None
        /\ replies[p] = <<Response(200, db[2])>>
        /\ outcome[p] = Return(db[2])
        /\ outcome[p].val.resultId = Num(2)

\* the invocation get_quality_statistics()
StatisticsCall == Invocation("get_quality_statistics", <<>>, EmptyDict)

\* the requests of its four sub-calls go to these URLs, in this order
StatisticsUrls == <<Root, Root \o "/passed", Root \o "/failed", Root \o "/high-risk">>

\* C15: get_quality_statistics() issues its four sub-calls one after another,
\* all-results, passed, failed, high-risk: having received n < 4 successful
\* responses it is suspended in request n + 1, the requests so far being the
\* first n + 1 of the four; having received four it has returned, with
\* exactly four requests issued.
C15_StatisticsSequentialCalls ==
    [][\A p \in Procs :
          (/\ pc'[p] # "idle"
           /\ call'[p] = StatisticsCall
           /\ \A r \in Delivered(replies'[p]) : IsStatus(r, 200))
          => LET n == Len(replies'[p])
             IN /\ n <= 4
                /\ Len(sent'[p]) = Min(n + 1, 4)
                /\ \A k \in 1..Len(sent'[p]) : sent'[p][k].url = StatisticsUrls[k]
                /\ IF n < 4
                   THEN pc'[p] = "awaiting" /\ net'[p].k # "none"
                   ELSE Done(p)' /\ outcome'[p].k = "return"]_vars

\* C16: the record get_quality_statistics() returns has total_results,
\* passed_count and failed_count equal to totalElements of the all-results,
\* passed and failed responses (0 where the field is missing), and
\* high_risk_count equal to the length of the high-risk response, which was
\* requested with the default threshold 0.7: an invocation that ends having
\* received nothing but successful responses ends with such a record.
C16_StatisticsCounts ==
    [][\A p \in Procs :
          (/\ Finishes(p)
           /\ call'[p] = StatisticsCall
           /\ replies'[p] # <<>>
           /\ \A r \in Delivered(replies'[p]) : IsStatus(r, 200))
          => /\ outcome'[p].k = "return"
             /\ Len(replies'[p]) = 4
             /\ sent'[p][4].params = [threshold |-> Num(DefaultThreshold)]
             /\ outcome'[p].val.total_results = Get(replies'[p][1].body, "totalElements", Num(0))
             /\ outcome'[p].val.passed_count = Get(replies'[p][2].body, "totalElements", Num(0))
             /\ outcome'[p].val.failed_count = Get(replies'[p][3].body, "totalElements", Num(0))
             /\ outcome'[p].val.high_risk_count = Num(Len(replies'[p][4].body))]_vars

\* the content of the all-results page of response r
ContentOf(r) == Get(r.body, "content", <<>>)

\* C17: average_quality_score in the record get_quality_statistics() returns
\* is the mean of qualityScore over the content of the all-results response
\* (the default page), a missing or null qualityScore counting as 0, and is 0
\* when that content is empty or missing.
C17_StatisticsAverageScore ==
    [][\A p \in Procs :
          (/\ Finishes(p)
           /\ call'[p] = StatisticsCall
           /\ replies'[p] # <<>>
           /\ \A r \in Delivered(replies'[p]) : IsStatus(r, 200))
          => /\ outcome'[p].k = "return"
             /\ sent'[p][1].params = None
             /\ outcome'[p].val.average_quality_score =
                    IF ContentOf(replies'[p][1]) = <<>> THEN Num(0)
                    ELSE Ratio(SumScores(ContentOf(replies'[p][1])), Len(ContentOf(replies'[p][1])))]_vars

\* the invocations in progress are between requests or have ended
NoneSuspended == \A p \in Procs : pc[p] # "awaiting"

\* C18: every request of the dispatcher is made through a client of its own,
\* which is closed when the request has ended, with a 2xx response, another
\* status, or a transport fault: an invocation holds one open client while it
\* is suspended in a request and none otherwise, it has opened as many
\* clients as it has issued requests, and when no invocation of the
\* concurrent call sites is suspended no client is open.
C18_ClientScopedToRequest ==
    /\ \A p \in Procs :
          /\ opened[p] - closed[p] = (IF pc[p] = "awaiting" THEN 1 ELSE 0)
          /\ opened[p] = Len(sent[p])
          /\ closed[p] = Len(replies[p])
    /\ NoneSuspended => \A p \in Procs : opened[p] = closed[p]

\* both call sites have ended an invocation that issued a request, one of
\* them on a transport fault, and neither holds an open client
C18_Witness ==
    /\ \A p \in Procs : Done(p) /\ opened[p] = 1 /\ closed[p] = 1
    /\ \E p \in Procs : IsFault(replies[p][1])
    /\ \E p \in Procs : Is2xx(replies[p][1])

\* reply is an answer to request req: the documented answer of the server
\* in one of its states, a fault status, or a transport fault
AnswersRequest(reply, req) ==
    \/ IsFault(reply) /\ reply.err \in TransportErrors
    \/ \E st \in FaultStatuses : reply = Response(st, Str("error"))
    \/ \E d \in Databases : reply = Serve(d, req)

C20_StatisticsCompletesAcrossWrites ==
    [][\A p \in Procs :
          (/\ Finishes(p)
           /\ call'[p] = StatisticsCall
           /\ condition = Healthy
           /\ replies'[p] # <<>>
           /\ \A r \in Delivered(replies'[p]) : IsStatus(r, 200)
           /\ \E k \in 1..Len(replies'[p]) : replies'[p][k] # Serve(db, sent'[p][k]))
          => /\ outcome'[p].k = "return"
             /\ Len(replies'[p]) = 4
             /\ outcome'[p].val.total_results = replies'[p][1].body.totalElements
             /\ outcome'[p].val.passed_count = replies'[p][2].body.totalElements
             /\ outcome'[p].val.failed_count = replies'[p][3].body.totalElements]_vars

\* the keys of a summary
SummaryKeys == {"result", "is_passed", "is_high_risk", "has_defects", "summary_generated_at"}

\* C21: the record of the server is passed on as it is: where
\* get_result_by_id(id) returns a record for the answer of the server,
\* get_quality_summary(id) returns a summary whose 'result' is this record,
\* the derived fields beside it, and safe_get_result(id) returns this record.
C21_RecordPassedOnUnchanged ==
    [][\A p \in Procs :
          (/\ Finishes(p)
           /\ Plain(call'[p], "get_quality_summary") \/ Plain(call'[p], "safe_get_result")
           /\ condition = Healthy
           /\ db[call'[p].args[1].v] # None
           /\ \A r \in Delivered(replies'[p]) : IsStatus(r, 200))
          => LET id == call'[p].args[1]
                 rs == IF replies'[p] # <<>> THEN replies'[p]
                       ELSE <<AnswerNow(get_result_by_id(id, <<>>).req)>>
                 lookup == get_result_by_id(id, rs)
             IN /\ lookup.k = "return"
                /\ outcome'[p].k = "return"
                /\ IF call'[p].fn = "safe_get_result"
                   THEN outcome'[p].val = lookup.val
                   ELSE /\ DOMAIN outcome'[p].val = SummaryKeys
                        /\ outcome'[p].val.result = lookup.val]_vars

\* the error that reply r makes a query function raise
ErrorOf(r) == IF IsFault(r) THEN TransportError(r.err) ELSE HTTPStatusError(r)

\* C22: get_quality_statistics() is fail-fast: it ends either on the failure
\* of a sub-call, with the error of that sub-call and no request issued after
\* it, or, all four sub-calls having succeeded, with its record.
C22_StatisticsFailFast ==
    [][\A p \in Procs :
          (Finishes(p) /\ call'[p] = StatisticsCall)
          => LET n == Len(replies'[p])
             IN /\ n \in 1..4
                /\ Len(sent'[p]) = n
                /\ \A k \in 1..(n - 1) : Is2xx(replies'[p][k])
                /\ IF Is2xx(replies'[p][n])
                   THEN n = 4 /\ outcome'[p].k = "return"
                   ELSE outcome'[p] = Raise(ErrorOf(replies'[p][n]))]_vars

\* 0 <= x <= 100 for the number or ratio x
IsPercentage(x) ==
    IF x.t = "ratio" THEN 0 <= x.n /\ x.n <= 100 * x.d ELSE 0 <= x.v /\ x.v <= 100

====
